---------------------------- MODULE Spec2Model ----------------------------
(***************************************************************************)
(* Model of the Arezzo chatbot's crawl-to-index pipeline:                  *)
(*   core/embeddings.py  chunk_text, embed, build_embeddings_incremental,  *)
(*                       search_similar and the persisted files            *)
(*   app.py              the upload handler                                *)
(*   core/scraper.py     _crawl_async and its helpers                      *)
(*                                                                         *)
(* Strings are sequences of one-character strings.  Python lists are       *)
(* sequences; Python's 0-based positions are kept as values (chunk map     *)
(* entries, search hits) and turned into 1-based positions only when a     *)
(* sequence is indexed (PyAt).                                             *)
(***************************************************************************)
EXTENDS Integers, Sequences, FiniteSets, TLC

---------------------------------------------------------------------------
(* Bounds of the model.                                                    *)

\* Budget of chunk_text as called by the build.  The source sets 6000
\* (embeddings.py:18); the model scales it down so that documents of one
\* and of several chunks both occur among texts of a few characters.
MAX_TOKENS_PER_CHUNK == 3
\* Longest crawler dump a crawl writes.
MaxDump == 1
\* Most uploads registered in uploaded_docs.json.
MaxUploads == 2
\* Largest top_k a search is asked for.
MaxTopK == 2
\* Largest max_pages and max_depth a crawl is started with.
MaxPagesBound == 3
MaxDepthBound == 2
\* Longest text and largest budget chunk_text is called with on its own.
MaxTextLen == 4
MaxBudget == 3
\* A build run taken step by step starts while the Document Store holds
\* fewer documents than this.
MaxStored == 2

---------------------------------------------------------------------------
(* Strings, the tokenizer and the chunker.                                 *)

\* The texts documents and queries are made of.  A crawled page has text
\* (the crawler drops empty and thin pages); an uploaded file may be empty.
Texts == { <<"a">>, <<"b", "a", "b">> }
UploadTexts == { <<>>, <<"b", "a", "b">> }
Titles == { <<"b">> }
PageUrls == { "/", "/x" }
Sources == { "f.txt" }
Queries == { <<"a">>, <<"b", "b">> }

\* ENC.encode: a byte-pair style tokenizer.  Tokens are numbers; the pairs
\* "ab" and "  " are merged into one token, every other character is a
\* token of its own.  The merge is greedy from the left.
RECURSIVE ENC_encode(_)
ENC_encode(s) ==
    IF s = <<>> THEN <<>>
    ELSE IF Len(s) >= 2 /\ s[1] = "a" /\ s[2] = "b"
         THEN <<3>> \o ENC_encode(SubSeq(s, 3, Len(s)))
    ELSE IF Len(s) >= 2 /\ s[1] = " " /\ s[2] = " "
         THEN <<5>> \o ENC_encode(SubSeq(s, 3, Len(s)))
    ELSE <<(CASE s[1] = "a" -> 1 [] s[1] = "b" -> 2 [] OTHER -> 4)>>
         \o ENC_encode(Tail(s))

\* ENC.decode: the characters of each token, concatenated.
RECURSIVE ENC_decode(_)
ENC_decode(toks) ==
    IF toks = <<>> THEN <<>>
    ELSE (CASE toks[1] = 1 -> <<"a">>
            [] toks[1] = 2 -> <<"b">>
            [] toks[1] = 3 -> <<"a", "b">>
            [] toks[1] = 4 -> <<" ">>
            [] OTHER       -> <<" ", " ">>)
         \o ENC_decode(Tail(toks))

Min(a, b) == IF a <= b THEN a ELSE b

\* Mutant: the next chunk starts one token after the end of the last.
RECURSIVE chunk_loop_skip(_, _, _)
chunk_loop_skip(tokens, start, max_tokens) ==
    IF start < Len(tokens)
    THEN LET end == Min(start + max_tokens, Len(tokens))
         IN  <<ENC_decode(SubSeq(tokens, start + 1, end))>>
             \o chunk_loop_skip(tokens, end + 1, max_tokens)
    ELSE <<>>

\* The while loop of chunk_text over tokens, from position start (0-based).
RECURSIVE chunk_loop(_, _, _)
chunk_loop(tokens, start, max_tokens) ==
    IF start < Len(tokens)
    THEN LET end == Min(start + max_tokens, Len(tokens))
         IN  <<ENC_decode(SubSeq(tokens, start + 1, end))>>
             \o chunk_loop(tokens, end, max_tokens)
    ELSE <<>>

chunk_text(text, max_tokens) == chunk_loop(ENC_encode(text), 0, max_tokens)

---------------------------------------------------------------------------
(* Embedding (external collaborator): one vector per text, a function of   *)
(* the text alone.  Vectors are pairs of integers.                         *)

RECURSIVE CountChar(_, _)
CountChar(s, c) ==
    IF s = <<>> THEN 0
    ELSE (IF s[1] = c THEN 1 ELSE 0) + CountChar(Tail(s), c)

embed_one(s) == <<CountChar(s, "a"), CountChar(s, "b")>>

embed(texts) == [i \in 1..Len(texts) |-> embed_one(texts[i])]

---------------------------------------------------------------------------
(* Documents.  A crawled page is a dict with url, title and text; an       *)
(* upload is a dict with source and text.  Dicts are records, compared by  *)
(* equality of all their keys and values, as Python's == on dicts.         *)

\* The page dicts a crawl may dump: the home page with any text, the other
\* pages with one.
PageDocs ==
    { d \in [url : PageUrls, title : Titles, text : Texts] :
        d.url = "/" \/ d.text = <<"a">> }
UploadDocs == [source : Sources, text : UploadTexts]

HasKey(d, k) == k \in DOMAIN d

\* doc.get('title','')
GetTitle(doc) == IF HasKey(doc, "title") THEN doc.title ELSE <<>>

\* The enriched text of build_embeddings_incremental: title, breadcrumb
\* path, description, keywords and text, each followed by a space.  The
\* model's documents carry no breadcrumbs, description or keywords.
Enriched(doc) == GetTitle(doc) \o <<" ">> \o <<" ">> \o <<" ">> \o <<" ">> \o doc.text

\* Python's  d in l
InList(d, l) == \E i \in 1..Len(l) : l[i] = d

\* Python's  l[i]  for an integer i, negative positions counting from the end.
PyAt(l, i) == IF i < 0 THEN l[Len(l) + i + 1] ELSE l[i + 1]

---------------------------------------------------------------------------
(* State.                                                                  *)

VARIABLES
    docs,           \* data/docs.json: the Document Store, a list of dicts
    chunk_map,      \* data/chunk_map.json: vector position -> doc-id
    index,          \* data/index.faiss: absent, or the stored vectors
    crawler_dump,   \* data/comune_arezzo_dump.json
    uploaded_docs,  \* data/uploaded_docs.json
    last_run,       \* the latest build run: how it ended, its embed calls,
                    \* and whether it read the input of the completed run
                    \* before it (repeat)
    synced,         \* no input file was written since the latest completed run
    search_out      \* what search_similar returned, while the caller holds it

pipeline_vars == <<docs, chunk_map, index, crawler_dump, uploaded_docs,
                   last_run, synced, search_out>>

\* The state of one run of _crawl_async (core/scraper.py).
VARIABLES
    crawl_pc,       \* "idle", "loop" (at the while test), "gather", "done"
    site,           \* the site crawled
    max_pages, max_depth, allowed_types,
    queue,          \* the BFS queue of (url, depth)
    visited_urls,
    seen_hashes,
    results,
    tasks,          \* the batch's workers: url, depth, state
    fetch_count,    \* per URL, the fetches started in this run
    fetched_at,     \* the (url, depth) pairs fetched in this run
    failed          \* the URLs of which a fetch returned None in this run

crawl_vars == <<crawl_pc, site, max_pages, max_depth, allowed_types, queue,
                visited_urls, seen_hashes, results, tasks, fetch_count,
                fetched_at, failed>>

\* One call of chunk_text (core/embeddings.py) on its own.
VARIABLES
    chunk_pc,       \* "idle", "called", "returned"
    text_in,        \* the text argument
    budget_in,      \* the max_tokens argument
    chunks_out      \* the list returned

chunk_vars == <<chunk_pc, text_in, budget_in, chunks_out>>

\* A build run and a search taken step by step, each file access a step.
VARIABLES
    build_pc,       \* "idle", "save_index", "save_docs", "save_chunk_map"
    pending,        \* the build run's local variables before its saves
    read_pc,        \* search_similar: "idle", "has_index", "has_docs", or
                    \* "raised" when the latest search ended in an exception
    loaded          \* what search_similar has loaded so far

conc_vars == <<build_pc, pending, read_pc, loaded>>

\* No search result is held.
NoSearch == [query |-> <<>>, top_k |-> 0, embedded |-> FALSE,
             I |-> <<>>, results |-> <<>>]

\* load_index() of a missing file is None.
NoIndex == [present |-> FALSE, xb |-> <<>>]

\* Mutant: the new vectors go before the stored ones.
index_add_front(existing_index, vectors) ==
    [present |-> TRUE, xb |-> vectors \o existing_index.xb]

\* faiss.IndexFlatL2(d) followed by index.add, or index.add on the loaded
\* index: the new vectors go after the stored ones.
index_add(existing_index, vectors) ==
    [present |-> TRUE, xb |-> existing_index.xb \o vectors]

ntotal(ix) == Len(ix.xb)

---------------------------------------------------------------------------
(* build_embeddings_incremental.                                           *)

\* Mutant: every input document is taken as new.
to_embed_docs_all(new_docs, existing_docs) == new_docs

\* "Identify NEW documents (not in existing set)".
to_embed_docs(new_docs, existing_docs) ==
    SelectSeq(new_docs, LAMBDA d : ~InList(d, existing_docs))

\* Mutant: one chunk-map entry per document instead of one per vector.
doc_entries_per_doc(vectors, existing_docs) == <<Len(existing_docs)>>

\* Mutant: the doc-id is taken after the document was appended.
doc_entries_late(vectors, existing_docs) ==
    [i \in 1..Len(vectors) |-> Len(existing_docs) + 1]

\* The chunk-map entries of one document's vectors: each is the position
\* the document is about to take in existing_docs.
doc_entries(vectors, existing_docs) ==
    [i \in 1..Len(vectors) |-> Len(existing_docs)]

\* The loop over to_embed_docs.  acc carries existing_docs,
\* all_new_vectors, new_chunk_map_entries and the number of embed calls.
RECURSIVE embed_loop(_, _)
embed_loop(todo, acc) ==
    IF todo = <<>> THEN acc
    ELSE LET doc     == Head(todo)
             chunks  == chunk_text(Enriched(doc), MAX_TOKENS_PER_CHUNK)
             vectors == embed(chunks)
         IN  embed_loop(Tail(todo),
                 [existing_docs         |-> Append(acc.existing_docs, doc),
                  all_new_vectors       |-> acc.all_new_vectors \o vectors,
                  new_chunk_map_entries |-> acc.new_chunk_map_entries
                                            \o doc_entries(vectors, acc.existing_docs),
                  embed_calls           |-> acc.embed_calls + 1])

\* The crawler dumps a crawl may write: lists of page dicts, one per url.
Dumps ==
    { d \in UNION { [1..n -> PageDocs] : n \in 0..MaxDump } :
        \A i, j \in 1..Len(d) : i # j => d[i].url # d[j].url }

\* The refresh button of app.py: the crawl overwrites the dump file with
\* dump, then build_embeddings_incremental runs.  The three actions below
\* are the three ways the build ends; new_docs is crawler_docs +
\* uploaded_docs as the build reads them.

\* The build finds nothing to embed and returns before any embed call or
\* save.
BuildNothing(dump) ==
    /\ to_embed_docs(dump \o uploaded_docs, docs) = <<>>
    /\ crawler_dump' = dump
    /\ last_run' = [outcome |-> "nothing", embed_calls |-> 0,
                    repeat |-> synced /\ dump = crawler_dump]
    /\ synced' = TRUE
    /\ search_out' = NoSearch
    /\ UNCHANGED <<docs, chunk_map, index, uploaded_docs>>
    /\ UNCHANGED crawl_vars
    /\ UNCHANGED chunk_vars
    /\ UNCHANGED conc_vars

\* Every embed call succeeds: the three files are saved.
BuildDone(dump) ==
    /\ to_embed_docs(dump \o uploaded_docs, docs) # <<>>
    /\ LET r == embed_loop(to_embed_docs(dump \o uploaded_docs, docs),
                    [existing_docs |-> docs, all_new_vectors |-> <<>>,
                     new_chunk_map_entries |-> <<>>, embed_calls |-> 0])
       IN  /\ index' = index_add(index, r.all_new_vectors)
           /\ docs' = r.existing_docs
           /\ chunk_map' = chunk_map \o r.new_chunk_map_entries
           /\ last_run' = [outcome |-> "saved", embed_calls |-> r.embed_calls,
                           repeat |-> synced /\ dump = crawler_dump]
    /\ crawler_dump' = dump
    /\ synced' = TRUE
    /\ search_out' = NoSearch
    /\ UNCHANGED uploaded_docs
    /\ UNCHANGED crawl_vars
    /\ UNCHANGED chunk_vars
    /\ UNCHANGED conc_vars

\* The j-th embed call raises: the exception leaves the function before
\* the saves, so none of the three files is written.
BuildAborted(dump) ==
    /\ \E j \in 1..Len(to_embed_docs(dump \o uploaded_docs, docs)) :
           last_run' = [outcome |-> "aborted", embed_calls |-> j,
                        repeat |-> synced /\ dump = crawler_dump]
    /\ crawler_dump' = dump
    /\ synced' = (synced /\ dump = crawler_dump)
    /\ search_out' = NoSearch
    /\ UNCHANGED <<docs, chunk_map, index, uploaded_docs>>
    /\ UNCHANGED crawl_vars
    /\ UNCHANGED chunk_vars
    /\ UNCHANGED conc_vars

Refresh ==
    \E dump \in Dumps :
        \/ BuildNothing(dump)
        \/ BuildDone(dump)
        \/ BuildAborted(dump)

\* The upload handler of app.py: the file's name and text are appended to
\* uploaded_docs.json.
Upload ==
    /\ Len(uploaded_docs) < MaxUploads
    /\ \E d \in UploadDocs : uploaded_docs' = Append(uploaded_docs, d)
    /\ synced' = FALSE
    /\ search_out' = NoSearch
    /\ UNCHANGED <<docs, chunk_map, index, crawler_dump, last_run>>
    /\ UNCHANGED crawl_vars
    /\ UNCHANGED chunk_vars
    /\ UNCHANGED conc_vars

---------------------------------------------------------------------------
(* search_similar.                                                         *)

\* Squared L2 distance, as IndexFlatL2 reports it.
Dist2(u, v) == (u[1] - v[1]) * (u[1] - v[1]) + (u[2] - v[2]) * (u[2] - v[2])

\* Whether stored vector i comes before stored vector j in a search for
\* qvec (0-based ids): nearer first, the lower id first among equals.
Before(xb, qvec, i, j) ==
    \/ Dist2(xb[i + 1], qvec) < Dist2(xb[j + 1], qvec)
    \/ Dist2(xb[i + 1], qvec) = Dist2(xb[j + 1], qvec) /\ i < j

\* index.search(qvec, top_k): the row I[0] of ids, nearest first, filled
\* with -1 where the index holds fewer than top_k vectors.
index_search(ix, qvec, top_k) ==
    LET n == Len(ix.xb)
        rank(i) == Cardinality({ j \in 0..(n - 1) : Before(ix.xb, qvec, j, i) })
    IN  [r \in 1..top_k |->
            IF r <= n THEN CHOOSE i \in 0..(n - 1) : rank(i) = r - 1 ELSE -1]

\* The loop over I[0] resolving hits to documents.
RECURSIVE resolve_hits(_, _, _)
resolve_hits(I, the_docs, the_chunk_map) ==
    IF I = <<>> THEN <<>>
    ELSE LET idx == Head(I)
             rest == resolve_hits(Tail(I), the_docs, the_chunk_map)
         IN  IF idx < Len(the_chunk_map)
             THEN LET doc_id == PyAt(the_chunk_map, idx)
                  IN  IF doc_id < Len(the_docs)
                      THEN <<PyAt(the_docs, doc_id)>> \o rest
                      ELSE rest
             ELSE rest

\* Mutant: the query is embedded before the index is looked for.
search_similar_embed_first(query, top_k) ==
    LET qvec == embed(<<query>>)[1]
        I == IF index.present THEN index_search(index, qvec, top_k) ELSE <<>>
    IN  [query |-> query, top_k |-> top_k, embedded |-> TRUE,
         I |-> I, results |-> resolve_hits(I, docs, chunk_map)]

search_similar(query, top_k) ==
    IF ~index.present
    THEN [query |-> query, top_k |-> top_k, embedded |-> FALSE,
          I |-> <<>>, results |-> <<>>]
    ELSE LET qvec == embed(<<query>>)[1]
             I == index_search(index, qvec, top_k)
         IN  [query |-> query, top_k |-> top_k, embedded |-> TRUE,
              I |-> I, results |-> resolve_hits(I, docs, chunk_map)]

Search ==
    /\ \E query \in Queries, top_k \in 1..MaxTopK :
           /\ search_out' = search_similar(query, top_k)
           /\ search_out' # search_out
    /\ UNCHANGED <<docs, chunk_map, index, crawler_dump, uploaded_docs,
                   last_run, synced>>
    /\ UNCHANGED crawl_vars
    /\ UNCHANGED chunk_vars
    /\ UNCHANGED conc_vars

---------------------------------------------------------------------------
(* A build run and a search running side by side (the app serves each      *)
(* session in a thread of its own): build_embeddings_incremental up to its *)
(* saves, then save_index, save_docs and save_chunk_map one by one;        *)
(* search_similar's load_index, load_docs and load_chunk_map one by one.   *)

NoPending == [existing_index |-> NoIndex, existing_docs |-> <<>>,
              existing_chunk_map |-> <<>>, all_new_vectors |-> <<>>,
              embed_calls |-> 0, repeat |-> FALSE, uploads_read |-> <<>>]

NoLoaded == [index |-> NoIndex, docs |-> <<>>]

InitConc ==
    /\ build_pc = "idle"
    /\ pending = NoPending
    /\ read_pc = "idle"
    /\ loaded = NoLoaded

\* The refresh handler up to "Save everything": the crawl writes the dump,
\* the build loads the files, finds documents to embed, embeds them all and
\* extends its copies of the store and the chunk map.
BuildStart ==
    /\ build_pc = "idle"
    /\ Len(docs) < MaxStored
    /\ \E dump \in Dumps :
           /\ to_embed_docs(dump \o uploaded_docs, docs) # <<>>
           /\ LET r == embed_loop(to_embed_docs(dump \o uploaded_docs, docs),
                           [existing_docs |-> docs, all_new_vectors |-> <<>>,
                            new_chunk_map_entries |-> <<>>, embed_calls |-> 0])
              IN  pending' = [existing_index |-> index,
                              existing_docs |-> r.existing_docs,
                              existing_chunk_map |->
                                  chunk_map \o r.new_chunk_map_entries,
                              all_new_vectors |-> r.all_new_vectors,
                              embed_calls |-> r.embed_calls,
                              repeat |-> synced /\ dump = crawler_dump,
                              uploads_read |-> uploaded_docs]
           /\ crawler_dump' = dump
    /\ build_pc' = "save_index"
    /\ UNCHANGED <<docs, chunk_map, index, uploaded_docs, last_run, synced,
                   search_out>>
    /\ UNCHANGED <<read_pc, loaded>>
    /\ UNCHANGED crawl_vars
    /\ UNCHANGED chunk_vars

\* save_index(index)
SaveIndex ==
    /\ build_pc = "save_index"
    /\ index' = index_add(pending.existing_index, pending.all_new_vectors)
    /\ build_pc' = "save_docs"
    /\ UNCHANGED <<docs, chunk_map, crawler_dump, uploaded_docs, last_run,
                   synced, search_out>>
    /\ UNCHANGED <<pending, read_pc, loaded>>
    /\ UNCHANGED crawl_vars
    /\ UNCHANGED chunk_vars

\* save_docs(existing_docs)
SaveDocs ==
    /\ build_pc = "save_docs"
    /\ docs' = pending.existing_docs
    /\ build_pc' = "save_chunk_map"
    /\ UNCHANGED <<chunk_map, index, crawler_dump, uploaded_docs, last_run,
                   synced, search_out>>
    /\ UNCHANGED <<pending, read_pc, loaded>>
    /\ UNCHANGED crawl_vars
    /\ UNCHANGED chunk_vars

\* save_chunk_map(existing_chunk_map); the run is over.
SaveChunkMap ==
    /\ build_pc = "save_chunk_map"
    /\ chunk_map' = pending.existing_chunk_map
    /\ last_run' = [outcome |-> "saved", embed_calls |-> pending.embed_calls,
                    repeat |-> pending.repeat]
    /\ synced' = (uploaded_docs = pending.uploads_read)
    /\ build_pc' = "idle"
    /\ pending' = NoPending
    /\ UNCHANGED <<docs, index, crawler_dump, uploaded_docs, search_out>>
    /\ UNCHANGED <<read_pc, loaded>>
    /\ UNCHANGED crawl_vars
    /\ UNCHANGED chunk_vars

\* Whether the loop over the hits raises IndexError: chunk_map[idx] with a
\* negative idx further from the end than the list is long.
hits_raise(I, the_chunk_map) ==
    \E r \in 1..Len(I) : I[r] < 0 /\ -I[r] > Len(the_chunk_map)

\* search_similar: load_index().  Without an index file it returns [].
LoadIndex ==
    /\ read_pc \in { "idle", "raised" }
    /\ IF index.present
       THEN /\ loaded' = [index |-> index, docs |-> <<>>]
            /\ read_pc' = "has_index"
            /\ UNCHANGED search_out
       ELSE /\ \E query \in Queries, top_k \in 1..MaxTopK :
                   /\ search_out' = [query |-> query, top_k |-> top_k,
                                     embedded |-> FALSE, I |-> <<>>,
                                     results |-> <<>>]
                   /\ search_out' # search_out
            /\ UNCHANGED <<read_pc, loaded>>
    /\ UNCHANGED <<docs, chunk_map, index, crawler_dump, uploaded_docs,
                   last_run, synced>>
    /\ UNCHANGED <<build_pc, pending>>
    /\ UNCHANGED crawl_vars
    /\ UNCHANGED chunk_vars

\* search_similar: embed, index.search on the loaded index, load_docs().
LoadDocs ==
    /\ read_pc = "has_index"
    /\ loaded' = [loaded EXCEPT !.docs = docs]
    /\ read_pc' = "has_docs"
    /\ UNCHANGED pipeline_vars
    /\ UNCHANGED <<build_pc, pending>>
    /\ UNCHANGED crawl_vars
    /\ UNCHANGED chunk_vars

\* search_similar: load_chunk_map() and the loop over the hits, which
\* returns the results or raises.
LoadChunkMap ==
    /\ read_pc = "has_docs"
    /\ \E query \in Queries, top_k \in 1..MaxTopK :
           LET qvec == embed(<<query>>)[1]
               I == index_search(loaded.index, qvec, top_k)
           IN  IF hits_raise(I, chunk_map)
               THEN /\ search_out' = NoSearch
                    /\ read_pc' = "raised"
               ELSE /\ search_out' = [query |-> query, top_k |-> top_k,
                                      embedded |-> TRUE, I |-> I,
                                      results |->
                                          resolve_hits(I, loaded.docs, chunk_map)]
                    /\ read_pc' = "idle"
    /\ loaded' = NoLoaded
    /\ UNCHANGED <<docs, chunk_map, index, crawler_dump, uploaded_docs,
                   last_run, synced>>
    /\ UNCHANGED <<build_pc, pending>>
    /\ UNCHANGED crawl_vars
    /\ UNCHANGED chunk_vars

---------------------------------------------------------------------------
(* core/scraper.py: URLs.                                                  *)

\* Mutant: one more fetch is let through at a time.
MAX_CONCURRENCY_more == 5 + 1

MAX_CONCURRENCY == 5

\* urlparse(BASE_URL).netloc
SiteDomain == "www.comune.arezzo.it"

\* A URL, as urlparse splits it.  path carries neither the trailing slash
\* of a non-root path (slash) nor the file extension (ext).
Url(scheme, netloc, path, slash, ext, fragment) ==
    [scheme |-> scheme, netloc |-> netloc, path |-> path, slash |-> slash,
     ext |-> ext, fragment |-> fragment]

Page(path)     == Url("https", SiteDomain, path, FALSE, "", FALSE)
Anchor(path)   == Url("https", SiteDomain, path, FALSE, "", TRUE)
Slashed(path)  == Url("https", SiteDomain, path, TRUE, "", FALSE)
File(path, e)  == Url("https", SiteDomain, path, FALSE, e, FALSE)
Foreign(path)  == Url("https", "other.example", path, FALSE, "", FALSE)
MailTo         == Url("mailto", "", "info", FALSE, "", FALSE)

\* normalize_url: the fragment is dropped, and one trailing slash of a
\* non-root path.
normalize_url(url) == [url EXCEPT !.fragment = FALSE, !.slash = FALSE]

StaticExts == { ".pdf", ".jpg", ".jpeg", ".png", ".gif", ".zip", ".doc", ".docx" }

\* is_valid_url: internal HTTP(S) pages, static assets skipped.
is_valid_url(url) ==
    /\ url.scheme \in { "http", "https" }
    /\ (url.netloc = "" \/ url.netloc = SiteDomain)
    /\ url.ext \notin StaticExts

---------------------------------------------------------------------------
(* The sites crawled.  A site maps the path of each page it serves to the  *)
(* page: the absolute URLs of its <a href> in document order (urljoin      *)
(* applied), the text extract_text_and_meta returns ("thin": empty or      *)
(* under 200 characters) and the type guess_content_type gives it.         *)

Pg(links, text, ctype) == [links |-> links, text |-> text, ctype |-> ctype]

SiteNames == { "fan", "diamond", "chain", "thinhub", "wide" }

SitePages(name) ==
    CASE name = "fan" ->
            [p \in { "/", "/a", "/b", "/c" } |->
                IF p = "/"
                THEN Pg(<<Page("/a"), Anchor("/a"), Slashed("/b"), Page("/c"),
                          File("/f", ".pdf"), Foreign("/"), MailTo>>,
                        "home", "pagina")
                ELSE IF p = "/a" THEN Pg(<<Page("/")>>, "thin", "pagina")
                ELSE IF p = "/b" THEN Pg(<<>>, "news1", "news")
                ELSE Pg(<<>>, "news1", "news")]
      [] name = "diamond" ->
            [p \in { "/", "/a", "/b", "/c" } |->
                IF p = "/" THEN Pg(<<Page("/a"), Page("/b")>>, "home", "pagina")
                ELSE IF p = "/a" THEN Pg(<<Page("/b"), Page("/c")>>, "texta", "news")
                ELSE IF p = "/b" THEN Pg(<<Page("/c"), Page("/a")>>, "textb", "pagina")
                ELSE Pg(<<Page("/")>>, "textc", "pagina")]
      [] name = "thinhub" ->
            [p \in { "/", "/a", "/b" } |->
                IF p = "/" THEN Pg(<<Page("/a")>>, "home", "pagina")
                ELSE IF p = "/a" THEN Pg(<<Page("/b")>>, "thin", "pagina")
                ELSE Pg(<<>>, "textb", "pagina")]
      [] name = "wide" ->
            [p \in { "/", "/a", "/b", "/c", "/d", "/e", "/f" } |->
                IF p = "/"
                THEN Pg(<<Page("/a"), Page("/b"), Page("/c"), Page("/d"),
                          Page("/e"), Page("/f")>>, "home", "pagina")
                ELSE Pg(<<>>, "leaf", "pagina")]
      [] OTHER ->
            [p \in { "/", "/a", "/b", "/c" } |->
                IF p = "/" THEN Pg(<<Page("/a")>>, "home", "pagina")
                ELSE IF p = "/a" THEN Pg(<<Slashed("/b")>>, "texta", "pagina")
                ELSE IF p = "/b" THEN Pg(<<Page("/c")>>, "textb", "news")
                ELSE Pg(<<>>, "textc", "pagina")]

Paths == { "/", "/a", "/b", "/c", "/d", "/e", "/f" }
AllUrls == { Page(p) : p \in Paths }

\* crawl_comune_arezzo's content_types: None, or the types to keep.
AllowedChoices == { {}, { "news" } }

---------------------------------------------------------------------------
(* core/scraper.py: _crawl_async.                                          *)

InitCrawl ==
    /\ crawl_pc = "idle"
    /\ site = "fan"
    /\ max_pages = 1
    /\ max_depth = 0
    /\ allowed_types = {}
    /\ queue = <<>>
    /\ visited_urls = {}
    /\ seen_hashes = {}
    /\ results = <<>>
    /\ tasks = <<>>
    /\ fetch_count = <<>>
    /\ fetched_at = {}
    /\ failed = {}

\* crawl_comune_arezzo(max_pages, max_depth, content_types) up to the
\* while loop of _crawl_async.
StartCrawl ==
    /\ crawl_pc = "idle"
    /\ \E s \in SiteNames, mp \in 1..MaxPagesBound, md \in 0..MaxDepthBound,
          at \in AllowedChoices :
           /\ site' = s
           /\ max_pages' = mp
           /\ max_depth' = md
           /\ allowed_types' = at
    /\ queue' = << <<normalize_url(Page("/")), 0>> >>
    /\ crawl_pc' = "loop"
    /\ UNCHANGED <<visited_urls, seen_hashes, results, tasks, fetch_count,
                   fetched_at, failed>>
    /\ UNCHANGED pipeline_vars
    /\ UNCHANGED chunk_vars
    /\ UNCHANGED conc_vars

\* fetch_count maps the URLs fetched so far to the number of their fetches.
FetchCount(u) == IF u \in DOMAIN fetch_count THEN fetch_count[u] ELSE 0

\* fetch_count after the workers in now (positions of ts) started to fetch.
count_fetches(ts, now) ==
    LET urls == DOMAIN fetch_count \cup { ts[i].url : i \in now }
    IN  [u \in urls |-> FetchCount(u) + Cardinality({ i \in now : ts[i].url = u })]

InFlight(ts) == Cardinality({ i \in 1..Len(ts) : ts[i].state = "fetching" })

\* Mutant: the semaphore admits no worker.
acquire_none(ts) == ts

\* "async with semaphore": waiting workers enter, in the order they were
\* created, while fewer than MAX_CONCURRENCY hold the semaphore: the first
\* free waiting workers of ts start to fetch.
acquire(ts) ==
    LET free == MAX_CONCURRENCY - InFlight(ts)
        ahead(k) == Cardinality({ m \in 1..(k - 1) : ts[m].state = "waiting" })
    IN  [k \in 1..Len(ts) |->
            IF ts[k].state = "waiting" /\ ahead(k) < free
            THEN [ts[k] EXCEPT !.state = "fetching"]
            ELSE ts[k]]

\* Whether a batch entry gets a worker.
gets_worker(url, depth, visited, maxd) ==
    ~(url \in visited \/ depth > maxd)

\* One pass of the while loop up to as_completed: a batch of at most
\* MAX_CONCURRENCY entries leaves the queue; each entry neither visited nor
\* too deep gets a worker, and the workers start.
TakeBatch ==
    /\ crawl_pc = "loop"
    /\ queue # <<>>
    /\ Cardinality(visited_urls) < max_pages
    /\ LET n == Min(Len(queue), MAX_CONCURRENCY)
           batch == SubSeq(queue, 1, n)
           kept == SelectSeq(batch,
                       LAMBDA e : gets_worker(e[1], e[2], visited_urls, max_depth))
           started == acquire([i \in 1..Len(kept) |->
                          [url |-> kept[i][1], depth |-> kept[i][2],
                           state |-> "waiting"]])
           now == { i \in 1..Len(started) : started[i].state = "fetching" }
       IN  /\ queue' = SubSeq(queue, n + 1, Len(queue))
           /\ tasks' = started
           /\ fetch_count' = count_fetches(started, now)
           /\ fetched_at' = fetched_at
                  \cup { <<started[i].url, started[i].depth>> : i \in now }
    /\ crawl_pc' = "gather"
    /\ UNCHANGED <<site, max_pages, max_depth, allowed_types, visited_urls,
                   seen_hashes, results, failed>>
    /\ UNCHANGED pipeline_vars
    /\ UNCHANGED chunk_vars
    /\ UNCHANGED conc_vars

\* Mutant: the links of a page at max_depth are followed too.
crawl_deeper_inclusive(depth, visited, maxd, maxp) ==
    depth <= maxd /\ Cardinality(visited) < maxp

\* Whether the links of a page processed at depth are followed.
crawl_deeper(depth, visited, maxd, maxp) ==
    depth < maxd /\ Cardinality(visited) < maxp

\* The (link, depth + 1) entries a page's links add to the queue.
new_entries(links, depth, visited) ==
    LET norm == [i \in 1..Len(links) |-> normalize_url(links[i])]
        keep == SelectSeq(norm, LAMBDA l : is_valid_url(l) /\ l \notin visited)
    IN  [i \in 1..Len(keep) |-> <<keep[i], depth + 1>>]

\* The body of the as_completed loop for a worker that returned html.
ProcessPage(url, depth) ==
    LET page == SitePages(site)[url.path]
        visited == visited_urls \cup { url }
        thin == page.text = "thin"
        dup == page.text \in seen_hashes
        include == allowed_types = {} \/ page.ctype \in allowed_types
    IN  /\ visited_urls' = visited
        /\ IF thin \/ dup
           THEN UNCHANGED <<seen_hashes, results, queue>>
           ELSE /\ seen_hashes' = seen_hashes \cup { page.text }
                /\ results' = IF include
                              THEN Append(results,
                                       [url |-> url, text |-> page.text,
                                        content_type |-> page.ctype])
                              ELSE results
                /\ queue' = IF crawl_deeper(depth, visited, max_depth, max_pages)
                            THEN queue \o new_entries(page.links, depth, visited)
                            ELSE queue

\* A worker's fetch ends and the as_completed loop handles its result:
\* nothing when html is None, the page otherwise.  Fetches end in any
\* order; a fetch may fail whatever the URL.  The worker leaving the
\* semaphore lets the next waiting one in.
Complete ==
    /\ crawl_pc = "gather"
    /\ \E i \in 1..Len(tasks) :
        /\ tasks[i].state = "fetching"
        /\ LET url == tasks[i].url
               depth == tasks[i].depth
               after == acquire([tasks EXCEPT ![i].state = "returned"])
               now == { k \in 1..Len(after) :
                          after[k].state = "fetching" /\ tasks[k].state = "waiting" }
           IN  /\ tasks' = after
               /\ fetch_count' = count_fetches(after, now)
               /\ fetched_at' = fetched_at
                      \cup { <<after[k].url, after[k].depth>> : k \in now }
               /\ \/ /\ failed' = failed \cup { url }
                     /\ UNCHANGED <<visited_urls, seen_hashes, results, queue>>
                  \/ /\ url.path \in DOMAIN SitePages(site)
                     /\ ProcessPage(url, depth)
                     /\ UNCHANGED failed
    /\ UNCHANGED <<crawl_pc, site, max_pages, max_depth, allowed_types>>
    /\ UNCHANGED pipeline_vars
    /\ UNCHANGED chunk_vars
    /\ UNCHANGED conc_vars

\* The as_completed loop ends when every worker of the batch was handled.
EndBatch ==
    /\ crawl_pc = "gather"
    /\ \A i \in 1..Len(tasks) : tasks[i].state = "returned"
    /\ tasks' = <<>>
    /\ crawl_pc' = "loop"
    /\ UNCHANGED <<site, max_pages, max_depth, allowed_types, queue,
                   visited_urls, seen_hashes, results, fetch_count,
                   fetched_at, failed>>
    /\ UNCHANGED pipeline_vars
    /\ UNCHANGED chunk_vars
    /\ UNCHANGED conc_vars

\* The while test fails: _crawl_async returns results.
Return ==
    /\ crawl_pc = "loop"
    /\ ~(queue # <<>> /\ Cardinality(visited_urls) < max_pages)
    /\ crawl_pc' = "done"
    /\ UNCHANGED <<site, max_pages, max_depth, allowed_types, queue,
                   visited_urls, seen_hashes, results, tasks, fetch_count,
                   fetched_at, failed>>
    /\ UNCHANGED pipeline_vars
    /\ UNCHANGED chunk_vars
    /\ UNCHANGED conc_vars

---------------------------------------------------------------------------
(* chunk_text called on its own.                                           *)

\* The strings of at most n characters over the model's alphabet.
RECURSIVE StringsUpTo(_)
StringsUpTo(n) ==
    IF n = 0 THEN { <<>> }
    ELSE StringsUpTo(n - 1)
            \cup { Append(s, c) : s \in StringsUpTo(n - 1), c \in { "a", "b", " " } }

ChunkTexts == StringsUpTo(MaxTextLen)

\* No call of chunk_text is under way.
InitChunkIdle ==
    /\ chunk_pc = "idle"
    /\ text_in = <<>>
    /\ budget_in = 1
    /\ chunks_out = <<>>

\* chunk_text was called with a text and a budget.
InitChunkCalled ==
    /\ chunk_pc = "called"
    /\ text_in \in ChunkTexts
    /\ budget_in \in 1..MaxBudget
    /\ chunks_out = <<>>

\* The call returns its list of chunks.
ChunkText ==
    /\ chunk_pc = "called"
    /\ chunks_out' = chunk_text(text_in, budget_in)
    /\ chunk_pc' = "returned"
    /\ UNCHANGED <<text_in, budget_in>>
    /\ UNCHANGED pipeline_vars
    /\ UNCHANGED crawl_vars
    /\ UNCHANGED conc_vars

---------------------------------------------------------------------------
(* The specifications.  Spec: refreshes and uploads in any order, one at   *)
(* a time.  SpecSearch: the same with searches between them.  SpecCrawl:   *)
(* one run of the crawler.                                                 *)

vars == <<pipeline_vars, crawl_vars, chunk_vars, conc_vars>>

InitPipeline ==
    /\ docs = <<>>
    /\ chunk_map = <<>>
    /\ index = NoIndex
    /\ crawler_dump = <<>>
    /\ uploaded_docs = <<>>
    /\ last_run = [outcome |-> "none", embed_calls |-> 0, repeat |-> FALSE]
    /\ synced = FALSE
    /\ search_out = NoSearch

Init == InitPipeline /\ InitCrawl /\ InitChunkIdle /\ InitConc

Next ==
    \/ Refresh
    \/ Upload

Spec == Init /\ [][Next]_vars

NextSearch ==
    \/ Next
    \/ Search

SpecSearch == Init /\ [][NextSearch]_vars

\* The system before its first completed build run: uploads, searches and
\* refreshes that find nothing to embed or abort.  A completed run stores
\* an index for good, so these are the behaviours without an index.
NextFresh ==
    \/ Upload
    \/ Search
    \/ \E dump \in Dumps : BuildNothing(dump)
    \/ \E dump \in Dumps : BuildAborted(dump)

SpecFresh == Init /\ [][NextFresh]_vars

NextCrawl ==
    \/ StartCrawl
    \/ TakeBatch
    \/ Complete
    \/ EndBatch
    \/ Return

SpecCrawl == Init /\ [][NextCrawl]_vars

\* The run under the scheduling of the event loop: a step of the run that
\* can be taken is taken, and every fetch ends (a response, an error or the
\* timeout of fetch).
SpecCrawlFair ==
    /\ SpecCrawl
    /\ WF_vars(TakeBatch)
    /\ WF_vars(Complete)
    /\ WF_vars(EndBatch)
    /\ WF_vars(Return)

\* Uploads, one build run at a time and one search at a time, the steps
\* of the build run and of the search interleaved.
NextConc ==
    \/ Upload
    \/ BuildStart
    \/ SaveIndex
    \/ SaveDocs
    \/ SaveChunkMap
    \/ LoadIndex
    \/ LoadDocs
    \/ LoadChunkMap

SpecConc == Init /\ [][NextConc]_vars

\* chunk_text called once, with any text and budget.
InitChunk == InitPipeline /\ InitCrawl /\ InitChunkCalled /\ InitConc

NextChunk == ChunkText

SpecChunk == InitChunk /\ [][NextChunk]_vars

---------------------------------------------------------------------------
(* Claims about the build (checked under Spec).                            *)

UrlCount(l, u) ==
    Cardinality({ i \in 1..Len(l) : HasKey(l[i], "url") /\ l[i].url = u })

\* C1: after every completed build run the persisted chunk map has exactly
\* as many entries as the persisted vector index has vectors.
C1_ChunkMapMatchesIndex == Len(chunk_map) = ntotal(index)

\* A completed run that followed an earlier completed run (two versions of
\* one url are stored) and stored documents of several chunks.
C1_Witness ==
    /\ last_run.outcome = "saved"
    /\ \E i, j \in 1..Len(docs) :
           i < j /\ HasKey(docs[i], "url") /\ HasKey(docs[j], "url")
                 /\ docs[i].url = docs[j].url
    /\ Len(chunk_map) > Len(docs)

\* C2: every entry of the persisted chunk map is a valid 0-based position
\* of the persisted Document Store.
C2_EntriesInRange ==
    \A i \in 1..Len(chunk_map) : 0 <= chunk_map[i] /\ chunk_map[i] < Len(docs)

\* One run stored two documents, a crawled page and an upload, and the
\* last vector belongs to the last document.
C2_Witness ==
    /\ last_run.outcome = "saved" /\ last_run.embed_calls = 2
    /\ Len(docs) >= 2
    /\ chunk_map[Len(chunk_map)] = Len(docs) - 1
    /\ chunk_map[1] = 0

\* C3 (as claimed): the url values of the stored documents are pairwise
\* distinct, also after a url was crawled again with changed content.
C3_UrlsPairwiseDistinct ==
    \A i, j \in 1..Len(docs) :
        (i # j /\ HasKey(docs[i], "url") /\ HasKey(docs[j], "url"))
            => docs[i].url # docs[j].url

\* C4 (as claimed): when a run processes a crawled document whose url is
\* already stored with other content, the new document takes the place of
\* the stored one and the store holds no more documents of that url than
\* before.
C4_ReplacedInPlace ==
    [][\A k \in 1..Len(crawler_dump') :
          LET d == crawler_dump'[k]
          IN  (docs' # docs /\ ~InList(d, docs) /\ UrlCount(docs, d.url) > 0)
              => /\ \A i \in 1..Len(docs) :
                        (HasKey(docs[i], "url") /\ docs[i].url = d.url)
                            => docs'[i] = d
                 /\ UrlCount(docs', d.url) = UrlCount(docs, d.url)
      ]_vars

\* C5: a run that reads the input the completed run before it read makes
\* no embed call and leaves the Document Store, the vector index and the
\* chunk map as they were.
C5_SecondRunIdle ==
    [][(/\ synced
        /\ crawler_dump' = crawler_dump
        /\ uploaded_docs' = uploaded_docs
        /\ (last_run' # last_run \/ docs' # docs))
       => (/\ docs' = docs
           /\ index' = index
           /\ chunk_map' = chunk_map
           /\ last_run'.embed_calls = 0
           /\ last_run'.outcome = "nothing")
      ]_vars

\* A run over the input of the completed run before it, with documents of
\* both kinds in the input and in the store.
C5_Witness ==
    /\ last_run.repeat /\ last_run.outcome = "nothing"
    /\ crawler_dump # <<>> /\ uploaded_docs # <<>>
    /\ Len(docs) >= 2

\* C13 (as claimed): when the embed call for the j-th new document of a run
\* fails, the persisted state after the run holds the j - 1 documents
\* before it with their vectors and chunk-map entries, and nothing of the
\* j-th and later ones.
C13_PrefixCommitted ==
    [][(last_run'.outcome = "aborted" /\ uploaded_docs' = uploaded_docs)
       => LET todo == to_embed_docs(crawler_dump' \o uploaded_docs, docs)
              j == last_run'.embed_calls
              r == embed_loop(SubSeq(todo, 1, j - 1),
                       [existing_docs |-> docs, all_new_vectors |-> <<>>,
                        new_chunk_map_entries |-> <<>>, embed_calls |-> 0])
          IN  /\ docs' = r.existing_docs
              /\ index'.xb = index.xb \o r.all_new_vectors
              /\ chunk_map' = chunk_map \o r.new_chunk_map_entries
      ]_vars

\* Whether sequence s is the beginning of sequence t.
IsPrefix(s, t) == Len(s) <= Len(t) /\ SubSeq(t, 1, Len(s)) = s

\* Vector position i (1-based) holds the vector of a chunk of the document
\* its chunk-map entry names: the k-th vector of a document is the
\* embedding of the k-th chunk of the document's enriched text.
OwnerProducedVector(the_docs, the_chunk_map, xb, i) ==
    LET doc == PyAt(the_docs, the_chunk_map[i])
        k == Cardinality({ j \in 1..i : the_chunk_map[j] = the_chunk_map[i] })
        vectors == embed(chunk_text(Enriched(doc), MAX_TOKENS_PER_CHUNK))
    IN  k <= Len(vectors) /\ xb[i] = vectors[k]

\* C21: in the persisted state every vector is a vector of the document
\* its chunk-map entry names, and a run leaves the documents, vectors and
\* chunk-map entries stored before it at their positions.
C21_OwnersStayAligned ==
    [][/\ Len(chunk_map') = ntotal(index')
       /\ \A i \in 1..Len(chunk_map') :
              OwnerProducedVector(docs', chunk_map', index'.xb, i)
       /\ IsPrefix(docs, docs')
       /\ IsPrefix(chunk_map, chunk_map')
       /\ IsPrefix(index.xb, index'.xb)
      ]_vars

\* The store was filled by more than one completed run (a crawled page
\* follows an upload, and a run stores its pages before its uploads) and
\* holds a document of several vectors.
C21_Witness ==
    /\ last_run.outcome = "saved"
    /\ \E i, j \in 1..Len(docs) :
           i < j /\ HasKey(docs[i], "source") /\ HasKey(docs[j], "url")
    /\ Len(chunk_map) > Len(docs)

\* C22 (as claimed): the persisted Document Store holds no two equal
\* document records, also when a record occurs twice in one run's input.
C22_NoEqualRecords ==
    \A i, j \in 1..Len(docs) : i # j => docs[i] # docs[j]

---------------------------------------------------------------------------
(* Claims about the crawler (checked under SpecCrawl).                     *)

\* The normalized valid URLs a page's links lead to.
LinkTargets(s, url) ==
    IF url.path \in DOMAIN SitePages(s)
    THEN LET links == SitePages(s)[url.path].links
         IN  { normalize_url(links[i]) : i \in 1..Len(links) }
                 \cap { l \in AllUrls : is_valid_url(l) }
    ELSE {}

\* The URLs at most k links away from the seed.
RECURSIVE Within(_, _)
Within(s, k) ==
    IF k = 0 THEN { normalize_url(Page("/")) }
    ELSE Within(s, k - 1)
             \cup UNION { LinkTargets(s, u) : u \in Within(s, k - 1) }

Fetched == DOMAIN fetch_count

\* C6 (as claimed): a crawl run visits at most max_pages distinct URLs.
C6_VisitedWithinMaxPages ==
    crawl_pc # "idle" => Cardinality(visited_urls) <= max_pages

\* C7: no entry deeper than max_depth is fetched, the links of a page at
\* max_depth are not enqueued, and so no page further than max_depth links
\* from the seed is fetched.
C7_DepthBound ==
    crawl_pc # "idle" =>
        /\ \A f \in fetched_at : f[2] <= max_depth
        /\ \A i \in 1..Len(queue) : queue[i][2] <= max_depth
        /\ Fetched \subseteq Within(site, max_depth)

\* A finished run that fetched and visited a page at max_depth which links
\* to a page one level deeper, never fetched.
C7_Witness ==
    /\ crawl_pc = "done"
    /\ \E f \in fetched_at :
           /\ f[2] = max_depth /\ max_depth > 0
           /\ f[1] \in visited_urls
           /\ \E l \in LinkTargets(site, f[1]) :
                  l \notin Within(site, max_depth) /\ FetchCount(l) = 0

\* C8 (as claimed): the URL of a failed fetch is marked visited and is not
\* fetched again in the run.
C8_FailedIsVisitedAndNotRefetched ==
    [][\A u \in failed' :
          /\ u \in visited_urls'
          /\ u \in failed => fetch_count'[u] = fetch_count[u]
      ]_vars

\* C9 (as claimed): a URL is fetched at most once in a run.
C9_FetchedAtMostOnce == \A u \in DOMAIN fetch_count : fetch_count[u] <= 1

\* C16 (as claimed): the checksum of every fetched page is recorded, also
\* when the page is then rejected as too thin.
C16_ChecksumRecordedAlsoWhenThin ==
    \A u \in visited_urls :
        u.path \in DOMAIN SitePages(site)
            => SitePages(site)[u.path].text \in seen_hashes

\* The least number of links from the seed to url (url within MaxDepthBound
\* + 1 links of it).
Distance(s, url) ==
    CHOOSE k \in 0..(MaxDepthBound + 1) :
        /\ url \in Within(s, k)
        /\ \A m \in 0..(k - 1) : url \notin Within(s, m)

\* C17 (as claimed): a run in which no fetch failed and the page limit was
\* not reached has fetched every URL within max_depth links of the seed,
\* each at a depth equal to its least number of links from the seed.
C17_BreadthFirstComplete ==
    (crawl_pc = "done" /\ failed = {} /\ Cardinality(visited_urls) < max_pages)
        => /\ Within(site, max_depth) \subseteq Fetched
           /\ \A f \in fetched_at : f[2] = Distance(site, f[1])

\* C18: at most MAX_CONCURRENCY (5) fetches are in flight at any instant
\* of a run.
C18_InFlightBounded == InFlight(tasks) <= 5

\* Five fetches are in flight while more entries wait in the queue.
C18_Witness ==
    /\ crawl_pc = "gather"
    /\ InFlight(tasks) = 5
    /\ queue # <<>>

\* C19: a run that was started returns, with the queue empty or the page
\* limit reached, whatever the site, the limits and the fetches that fail.
C19_CrawlTerminates ==
    (crawl_pc # "idle")
        ~> (/\ crawl_pc = "done"
            /\ (queue = <<>> \/ Cardinality(visited_urls) >= max_pages))

\* A run that returned at the page limit with entries left in the queue,
\* after some fetch had failed.
C19_Witness ==
    /\ crawl_pc = "done"
    /\ failed # {}
    /\ queue # <<>>
    /\ Cardinality(visited_urls) >= max_pages

---------------------------------------------------------------------------
(* Claims about the search (checked under SpecSearch, C12 under           *)
(* SpecFresh).                                                             *)

\* The doc-ids of a row of hits, each kept at its first (nearest) place.
RECURSIVE FirstOccurrences(_, _)
FirstOccurrences(ids, seen) ==
    IF ids = <<>> THEN <<>>
    ELSE IF Head(ids) \in seen THEN FirstOccurrences(Tail(ids), seen)
    ELSE <<Head(ids)>> \o FirstOccurrences(Tail(ids), seen \cup { Head(ids) })

\* C10 (as claimed): search_similar returns the hit documents nearest
\* first, each once, at the place of its nearest chunk.  Stated for the
\* searches every hit of which is a stored vector.
C10_HitsCollapsed ==
    (search_out.embedded /\ \A r \in 1..Len(search_out.I) : search_out.I[r] >= 0)
    => LET ids == [r \in 1..Len(search_out.I) |-> chunk_map[search_out.I[r] + 1]]
           once == FirstOccurrences(ids, {})
       IN  search_out.results = [r \in 1..Len(once) |-> docs[once[r] + 1]]

\* C11 (as claimed): a search over an index of fewer than top_k vectors
\* returns at most as many results as the index holds vectors, and the
\* results are the owners of the stored vectors hit: an unfilled slot of
\* the row of hits resolves to no document.
C11_MissingHitsResolveToNothing ==
    search_out.embedded =>
        LET stored == SelectSeq(search_out.I, LAMBDA i : i >= 0)
        IN  /\ Len(search_out.results) <= ntotal(index)
            /\ search_out.results = resolve_hits(stored, docs, chunk_map)

\* C12: while no index is persisted, search_similar returns the empty list
\* and makes no embed call, whatever the query and top_k.
C12_NoIndexNoResults ==
    (search_out # NoSearch /\ ~index.present)
        => (search_out.results = <<>> /\ ~search_out.embedded)

\* A search asked for the largest top_k while no index is persisted,
\* uploads being registered and a build run having aborted.
C12_Witness ==
    /\ ~index.present
    /\ search_out # NoSearch /\ search_out.top_k = MaxTopK
    /\ search_out.query \in Queries
    /\ uploaded_docs # <<>>
    /\ last_run.outcome = "aborted"

---------------------------------------------------------------------------
(* Claims about chunk_text (checked under SpecChunk).                      *)

\* C14 (as claimed): a text of fewer tokens than the budget, the empty text
\* included, comes back as exactly one chunk equal to the text.
C14_SmallTextIsOneChunk ==
    (chunk_pc = "returned" /\ Len(ENC_encode(text_in)) < budget_in)
        => chunks_out = <<text_in>>

\* The elements of a set of numbers in ascending order.
RECURSIVE Ascending(_)
Ascending(S) ==
    IF S = {} THEN <<>>
    ELSE LET m == CHOOSE x \in S : \A y \in S : x <= y
         IN  <<m>> \o Ascending(S \ { m })

\* C15: the chunks chunk_text returns are the decoded pieces of a cut of
\* the token sequence into consecutive slices, none empty and none longer
\* than max_tokens, which together are the whole sequence in order.
C15_ChunksAreSlices ==
    chunk_pc = "returned" =>
        LET toks == ENC_encode(text_in)
            n == Len(toks)
        IN  \E S \in SUBSET (1..(n - 1)) :
                LET cuts == Ascending(S \cup { 0, n })
                IN  /\ Len(chunks_out) = Len(cuts) - 1
                    /\ \A i \in 1..Len(chunks_out) :
                           /\ cuts[i + 1] - cuts[i] <= budget_in
                           /\ chunks_out[i] # <<>>
                           /\ chunks_out[i] =
                                  ENC_decode(SubSeq(toks, cuts[i] + 1, cuts[i + 1]))

\* A text with a merged token cut into several chunks, the last of them
\* shorter than the budget.
C15_Witness ==
    /\ chunk_pc = "returned"
    /\ Len(chunks_out) >= 2
    /\ Len(ENC_encode(text_in)) < Len(text_in)
    /\ Len(ENC_encode(text_in)) % budget_in # 0

---------------------------------------------------------------------------
(* Claims about a search beside a build run (checked under SpecConc).      *)

\* C20 (as claimed): the index a search has loaded holds as many vectors as
\* the chunk map it loads has entries, and every entry of that chunk map
\* is a position of the Document Store it has loaded, also while a build
\* run is saving.
C20_ReaderSeesConsistentFiles ==
    [][(read_pc = "has_docs" /\ read_pc' # "has_docs")
       => /\ ntotal(loaded.index) = Len(chunk_map)
          /\ \A i \in 1..Len(chunk_map) :
                 0 <= chunk_map[i] /\ chunk_map[i] < Len(loaded.docs)
      ]_vars

=============================================================================
